---- MODULE Spec2Model ----
(***************************************************************************)
(* Warehouse ledger of streamlit_gudang_app.py: the items table, the       *)
(* transactions table (the Movement Log), and the four submit handlers     *)
(* (Barang Masuk / Barang Keluar, single-item and multi-item), the reset   *)
(* of the database, the upload and export of the inventory, and the        *)
(* reporting functions with the pages that call them.                      *)
(*                                                                         *)
(* Quantities are integers (the REAL column holds the form's numbers).     *)
(* Columns that none of the checked properties reads (category, min_stock, *)
(* rack_location, expiry_date, supplier, note, the items' timestamps) are  *)
(* left out of the rows.  A name is a sequence of characters so that       *)
(* str.strip() is computed, not assumed.                                   *)
(***************************************************************************)
EXTENDS Integers, Sequences, FiniteSets, TLC

VARIABLES
  items,         \* the rows of the items table, in rowid order
  transactions,  \* the rows of the transactions table, in rowid order
  clock,         \* datetime.now(), in seconds
  ui,            \* the message the page shows: its kind, and how many lines
  sess           \* for each concurrent session, where its script run stands

vars == <<items, transactions, clock, ui, sess>>

\* ------------------------------------------------------------- bounds
MaxQty == 2      \* largest quantity typed into a form
MaxLines == 2    \* most rows of a multi-item form
MaxLog == 3      \* most rows of the transactions table
MaxClock == 1    \* last second of the wall clock
NumSessions == 2 \* browser sessions whose script runs overlap
MaxMoves == 2    \* most rows of the log the reports are drawn from

\* ------------------------------------------------------------- constants
RandLo == 100    \* random.randint(100, 999)
None == 0        \* Python's None for an item id; AUTOINCREMENT ids start at 1

\* ------------------------------------------------------------- inputs
NameEmpty == << >>
NameA == <<"A">>
NameSpA == <<" ", "A">>
NameB == <<"B">>
Requesters == {"", "r"}

\* the suffixes random.randint draws, cut down to two
Rands == {RandLo, RandLo + 1}

\* what one row of a form can hold: every well-formed row over three names,
\* and one row for each way of being malformed
Line ==
  [name : {NameA, NameSpA, NameB}, unit : {"kg"}, quantity : 1..MaxQty]
    \cup {[name |-> NameEmpty, unit |-> "kg", quantity |-> 1],
          [name |-> NameA, unit |-> "", quantity |-> 1],
          [name |-> NameA, unit |-> "kg", quantity |-> 0]}

\* the one row of the forms that exercise the transaction codes
CodeLine == {[name |-> NameA, unit |-> "kg", quantity |-> 1]}

\* the multi-item forms of at most n rows, each taken from rows
BatchesOf(rows, n) == UNION {[1..k -> rows] : k \in 0..n}

\* ------------------------------------------------------------- helpers
RECURSIVE lstrip(_)
lstrip(s) == IF s # << >> /\ Head(s) = " " THEN lstrip(Tail(s)) ELSE s

RECURSIVE rstrip(_)
rstrip(s) ==
  IF s # << >> /\ s[Len(s)] = " " THEN rstrip(SubSeq(s, 1, Len(s) - 1)) ELSE s

\* name.strip()
strip(s) == rstrip(lstrip(s))

\* generate_trx_code that leaves the direction out of the code
code_without_type(trx_type, now, rnd) == <<"TRX", "", now, rnd>>

\* f"TRX-{trx_type.upper()}-{now}-{random.randint(100,999)}"
generate_trx_code(trx_type, now, rnd) ==
  <<"TRX", IF trx_type = "in" THEN "IN" ELSE "OUT", now, rnd>>

\* SELECT ... FROM items WHERE name=? AND unit=?  followed by fetchone():
\* the position of the first matching row, 0 when there is none
select_item(its, name, unit) ==
  IF \E i \in 1..Len(its) : its[i].name = name /\ its[i].unit = unit
  THEN CHOOSE i \in 1..Len(its) :
         /\ its[i].name = name /\ its[i].unit = unit
         /\ \A j \in 1..(i - 1) : ~(its[j].name = name /\ its[j].unit = unit)
  ELSE 0

\* update_quantity without its WHERE clause
update_every_row(its, item_id, new_quantity) ==
  [i \in 1..Len(its) |-> [its[i] EXCEPT !.quantity = new_quantity]]

\* UPDATE items SET quantity=? WHERE id=?
update_quantity(its, item_id, new_quantity) ==
  [i \in 1..Len(its) |->
     IF its[i].id = item_id THEN [its[i] EXCEPT !.quantity = new_quantity]
     ELSE its[i]]

\* INSERT INTO items(...) ; the new row's id is cur.lastrowid
insert_item(its, name, unit, quantity) ==
  Append(its, [id |-> Len(its) + 1, name |-> name, unit |-> unit,
               quantity |-> quantity])

\* upsert_item that overwrites the quantity of a row it finds
upsert_overwrite(its, name, unit, quantity) ==
  LET nm == strip(name)
      row == select_item(its, nm, unit)
  IN IF row # 0
     THEN [items |-> update_quantity(its, its[row].id, quantity),
           item_id |-> its[row].id]
     ELSE [items |-> insert_item(its, nm, unit, quantity),
           item_id |-> Len(its) + 1]

upsert_item(its, name, unit, quantity) ==
  LET nm == strip(name)
      row == select_item(its, nm, unit)
  IN IF row # 0
     THEN [items |-> update_quantity(its, its[row].id,
                                     its[row].quantity + quantity),
           item_id |-> its[row].id]
     ELSE [items |-> insert_item(its, nm, unit, quantity),
           item_id |-> Len(its) + 1]

\* adjust_item_for_out without its stock test
adjust_unchecked(its, name, unit, quantity) ==
  LET row == select_item(its, name, unit)
  IN IF row = 0
     THEN [items |-> its, item_id |-> None, err |-> "not_found", avail |-> 0]
     ELSE [items |-> update_quantity(its, its[row].id,
                                     its[row].quantity - quantity),
           item_id |-> its[row].id, err |-> "", avail |-> its[row].quantity]

\* adjust_item_for_out that deletes the row of an item it has emptied
adjust_delete_at_zero(its, name, unit, quantity) ==
  LET row == select_item(its, name, unit)
  IN IF row = 0
     THEN [items |-> its, item_id |-> None, err |-> "not_found", avail |-> 0]
     ELSE IF its[row].quantity < quantity
     THEN [items |-> its, item_id |-> None, err |-> "insufficient",
           avail |-> its[row].quantity]
     ELSE IF its[row].quantity = quantity
     THEN [items |-> SubSeq(its, 1, row - 1) \o SubSeq(its, row + 1, Len(its)),
           item_id |-> its[row].id, err |-> "", avail |-> its[row].quantity]
     ELSE [items |-> update_quantity(its, its[row].id,
                                     its[row].quantity - quantity),
           item_id |-> its[row].id, err |-> "", avail |-> its[row].quantity]

\* adjust_item_for_out that asks for more stock than the quantity it takes
adjust_strict(its, name, unit, quantity) ==
  LET row == select_item(its, name, unit)
  IN IF row = 0
     THEN [items |-> its, item_id |-> None, err |-> "not_found", avail |-> 0]
     ELSE IF its[row].quantity <= quantity
     THEN [items |-> its, item_id |-> None, err |-> "insufficient",
           avail |-> its[row].quantity]
     ELSE [items |-> update_quantity(its, its[row].id,
                                     its[row].quantity - quantity),
           item_id |-> its[row].id, err |-> "", avail |-> its[row].quantity]

adjust_item_for_out(its, name, unit, quantity) ==
  LET row == select_item(its, name, unit)
  IN IF row = 0
     THEN [items |-> its, item_id |-> None, err |-> "not_found", avail |-> 0]
     ELSE IF its[row].quantity < quantity
     THEN [items |-> its, item_id |-> None, err |-> "insufficient",
           avail |-> its[row].quantity]
     ELSE [items |-> update_quantity(its, its[row].id,
                                     its[row].quantity - quantity),
           item_id |-> its[row].id, err |-> "", avail |-> its[row].quantity]

\* add_transaction_record as INSERT OR REPLACE under the id of the last row
add_transaction_replace(trs, trx_type, item_id, name, quantity, unit, bundle_code, trx_code, now) ==
  LET n == IF trs = << >> THEN 1 ELSE Len(trs)
  IN SubSeq(trs, 1, n - 1)
       \o <<[id |-> n, trx_type |-> trx_type, item_id |-> item_id,
             name |-> name, quantity |-> quantity, unit |-> unit,
             bundle_code |-> bundle_code, trx_code |-> trx_code,
             created_at |-> now]>>

add_transaction_record(trs, trx_type, item_id, name, quantity, unit, bundle_code, trx_code, now) ==
  Append(trs, [id |-> Len(trs) + 1, trx_type |-> trx_type,
               item_id |-> item_id, name |-> name, quantity |-> quantity,
               unit |-> unit, bundle_code |-> bundle_code,
               trx_code |-> trx_code, created_at |-> now])

\* what the page shows after a submit: st.success / st.error
Shown(kind, msgs) == [kind |-> kind, msgs |-> msgs]

\* one entry of a rejection message
Msg(row, name, avail, requested) ==
  [row |-> row, name |-> name, avail |-> avail, requested |-> requested]

\* bad_fields that lets a quantity of 0 through
bad_fields_negative(name, unit, quantity) ==
  name = << >> \/ quantity < 0 \/ unit = ""

\* not name or quantity <= 0 or not unit
bad_fields(name, unit, quantity) ==
  name = << >> \/ quantity <= 0 \/ unit = ""

\* ------------------------------------------------------------- handlers
\* Barang Masuk, single-item: the state after the submit
receive_single(its, trs, name, unit, quantity, now, rnd) ==
  LET trx_code == generate_trx_code("in", now, rnd)
  IN IF bad_fields(name, unit, quantity)
     THEN [items |-> its, transactions |-> trs,
           ui |-> Shown("validation", << >>)]
     ELSE LET up == upsert_item(its, name, unit, quantity)
          IN [items |-> up.items,
              transactions |->
                add_transaction_record(trs, "in", up.item_id, name, quantity,
                                       unit, trx_code, trx_code, now),
              ui |-> Shown("ok", << >>)]

\* issue_single without its own look at the stock: it leaves the test to
\* adjust_item_for_out and drops the error
issue_single_untested(its, trs, name, unit, quantity, requester, now, rnd) ==
  LET trx_code == generate_trx_code("out", now, rnd)
  IN IF bad_fields(name, unit, quantity) \/ requester = ""
     THEN [items |-> its, transactions |-> trs,
           ui |-> Shown("validation", << >>)]
     ELSE LET adj == adjust_item_for_out(its, name, unit, quantity)
          IN [items |-> adj.items,
              transactions |->
                add_transaction_record(trs, "out", adj.item_id, name,
                                       quantity, unit, trx_code, trx_code,
                                       now),
              ui |-> Shown("ok", << >>)]

\* issue_single that does not ask for the requester
issue_single_any_requester(its, trs, name, unit, quantity, requester, now, rnd) ==
  LET trx_code == generate_trx_code("out", now, rnd)
      row == select_item(its, name, unit)
  IN IF bad_fields(name, unit, quantity)
     THEN [items |-> its, transactions |-> trs,
           ui |-> Shown("validation", << >>)]
     ELSE IF row = 0
     THEN [items |-> its, transactions |-> trs,
           ui |-> Shown("not_found", << >>)]
     ELSE IF its[row].quantity < quantity
     THEN [items |-> its, transactions |-> trs,
           ui |-> Shown("insufficient",
                        <<Msg(1, name, its[row].quantity, quantity)>>)]
     ELSE LET adj == adjust_item_for_out(its, name, unit, quantity)
          IN [items |-> adj.items,
              transactions |->
                add_transaction_record(trs, "out", adj.item_id, name,
                                       quantity, unit, trx_code, trx_code,
                                       now),
              ui |-> Shown("ok", << >>)]

\* Barang Keluar, single-item: the state after the submit
issue_single(its, trs, name, unit, quantity, requester, now, rnd) ==
  LET trx_code == generate_trx_code("out", now, rnd)
      row == select_item(its, name, unit)
  IN IF bad_fields(name, unit, quantity) \/ requester = ""
     THEN [items |-> its, transactions |-> trs,
           ui |-> Shown("validation", << >>)]
     ELSE IF row = 0
     THEN [items |-> its, transactions |-> trs,
           ui |-> Shown("not_found", << >>)]
     ELSE IF its[row].quantity < quantity
     THEN [items |-> its, transactions |-> trs,
           ui |-> Shown("insufficient",
                        <<Msg(1, name, its[row].quantity, quantity)>>)]
     ELSE LET adj == adjust_item_for_out(its, name, unit, quantity)
          IN [items |-> adj.items,
              transactions |->
                add_transaction_record(trs, "out", adj.item_id, name,
                                       quantity, unit, trx_code, trx_code,
                                       now),
              ui |-> Shown("ok", << >>)]

\* validation_errors that looks at the names only
RECURSIVE validation_errors_names_only(_, _)
validation_errors_names_only(lines, idx) ==
  IF idx > Len(lines) THEN << >>
  ELSE (IF lines[idx].name = << >> THEN <<Msg(idx, << >>, 0, 0)>> ELSE << >>)
       \o validation_errors_names_only(lines, idx + 1)

\* the rows of a multi-item form that fail the field validation, one message
\* for each: f'Baris {idx+1}: ...'
RECURSIVE validation_errors(_, _)
validation_errors(lines, idx) ==
  IF idx > Len(lines) THEN << >>
  ELSE (IF bad_fields(lines[idx].name, lines[idx].unit, lines[idx].quantity)
        THEN <<Msg(idx, << >>, 0, 0)>>
        ELSE << >>) \o validation_errors(lines, idx + 1)

\* receive_loop that takes the rows of the form from the last to the first
RECURSIVE receive_loop_reversed(_, _, _, _, _, _)
receive_loop_reversed(its, trs, lines, idx, trx_code, now) ==
  IF idx > Len(lines) THEN [items |-> its, transactions |-> trs]
  ELSE LET it == lines[Len(lines) + 1 - idx]
           up == upsert_item(its, it.name, it.unit, it.quantity)
       IN receive_loop_reversed(up.items,
                                add_transaction_record(trs, "in", up.item_id,
                                                       it.name, it.quantity,
                                                       it.unit, trx_code,
                                                       trx_code, now),
                                lines, idx + 1, trx_code, now)

\* Barang Masuk multi-item: the loop that upserts and records every row
RECURSIVE receive_loop(_, _, _, _, _, _)
receive_loop(its, trs, lines, idx, trx_code, now) ==
  IF idx > Len(lines) THEN [items |-> its, transactions |-> trs]
  ELSE LET it == lines[idx]
           up == upsert_item(its, it.name, it.unit, it.quantity)
       IN receive_loop(up.items,
                       add_transaction_record(trs, "in", up.item_id, it.name,
                                              it.quantity, it.unit, trx_code,
                                              trx_code, now),
                       lines, idx + 1, trx_code, now)

\* Barang Masuk, multi-item: the state after the submit
receive_batch(its, trs, lines, now, rnd) ==
  IF lines = << >>
  THEN [items |-> its, transactions |-> trs, ui |-> Shown("empty", << >>)]
  ELSE LET errors == validation_errors(lines, 1)
       IN IF errors # << >>
          THEN [items |-> its, transactions |-> trs,
                ui |-> Shown("validation", errors)]
          ELSE LET done == receive_loop(its, trs, lines, 1,
                                        generate_trx_code("in", now, rnd), now)
               IN [items |-> done.items, transactions |-> done.transactions,
                   ui |-> Shown("ok", << >>)]

\* insufficient_rows that looks at one row only
insufficient_first(its, lines, idx) ==
  LET it == lines[idx]
      row == select_item(its, it.name, it.unit)
  IN IF row = 0 THEN <<Msg(idx, it.name, None, it.quantity)>>
     ELSE IF its[row].quantity < it.quantity
     THEN <<Msg(idx, it.name, its[row].quantity, it.quantity)>>
     ELSE << >>

\* insufficient_rows that checks every row against what the rows before it
\* would leave
RECURSIVE insufficient_cumulative(_, _, _)
insufficient_cumulative(its, lines, idx) ==
  IF idx > Len(lines) THEN << >>
  ELSE LET it == lines[idx]
           row == select_item(its, it.name, it.unit)
       IN IF row = 0
          THEN <<Msg(idx, it.name, None, it.quantity)>>
                 \o insufficient_cumulative(its, lines, idx + 1)
          ELSE IF its[row].quantity < it.quantity
          THEN <<Msg(idx, it.name, its[row].quantity, it.quantity)>>
                 \o insufficient_cumulative(its, lines, idx + 1)
          ELSE insufficient_cumulative(
                 update_quantity(its, its[row].id,
                                 its[row].quantity - it.quantity),
                 lines, idx + 1)

\* insufficient_rows that stops at the first row it finds short or missing
RECURSIVE insufficient_fail_fast(_, _, _)
insufficient_fail_fast(its, lines, idx) ==
  IF idx > Len(lines) THEN << >>
  ELSE LET it == lines[idx]
           row == select_item(its, it.name, it.unit)
       IN IF row = 0 THEN <<Msg(idx, it.name, None, it.quantity)>>
          ELSE IF its[row].quantity < it.quantity
          THEN <<Msg(idx, it.name, its[row].quantity, it.quantity)>>
          ELSE insufficient_fail_fast(its, lines, idx + 1)

\* Barang Keluar multi-item: the stock check of every row against the table
\* as it stands before any row is applied
RECURSIVE insufficient_rows(_, _, _)
insufficient_rows(its, lines, idx) ==
  IF idx > Len(lines) THEN << >>
  ELSE LET it == lines[idx]
           row == select_item(its, it.name, it.unit)
       IN (IF row = 0 THEN <<Msg(idx, it.name, None, it.quantity)>>
           ELSE IF its[row].quantity < it.quantity
           THEN <<Msg(idx, it.name, its[row].quantity, it.quantity)>>
           ELSE << >>) \o insufficient_rows(its, lines, idx + 1)

\* Barang Keluar multi-item: the loop that deducts and records every row; the
\* error adjust_item_for_out returns is dropped (item_id, _ = ...)
RECURSIVE issue_loop(_, _, _, _, _, _)
issue_loop(its, trs, lines, idx, trx_code, now) ==
  IF idx > Len(lines) THEN [items |-> its, transactions |-> trs]
  ELSE LET it == lines[idx]
           adj == adjust_item_for_out(its, it.name, it.unit, it.quantity)
       IN issue_loop(adj.items,
                     add_transaction_record(trs, "out", adj.item_id, it.name,
                                            it.quantity, it.unit, trx_code,
                                            trx_code, now),
                     lines, idx + 1, trx_code, now)

\* Barang Keluar, multi-item: the state after the submit
issue_batch(its, trs, lines, requester, now, rnd) ==
  IF lines = << >>
  THEN [items |-> its, transactions |-> trs, ui |-> Shown("empty", << >>)]
  ELSE IF requester = ""
  THEN [items |-> its, transactions |-> trs,
        ui |-> Shown("no_requester", << >>)]
  ELSE LET bad == validation_errors(lines, 1)
       IN IF bad # << >>
          THEN [items |-> its, transactions |-> trs,
                ui |-> Shown("validation", bad)]
          ELSE LET insufficient == insufficient_rows(its, lines, 1)
               IN IF insufficient # << >>
                  THEN [items |-> its, transactions |-> trs,
                        ui |-> Shown("rejected", insufficient)]
                  ELSE LET done == issue_loop(its, trs, lines, 1,
                                     generate_trx_code("out", now, rnd), now)
                       IN [items |-> done.items,
                           transactions |-> done.transactions,
                           ui |-> Shown("ok", << >>)]

\* ------------------------------------------------------------- one session
Sessions == 1..NumSessions

\* a session whose script run is over, with the message it ended on
Idle(outcome) ==
  [pc |-> "idle", trx_type |-> "", batch |-> FALSE, lines |-> << >>,
   idx |-> 0, trx_code |-> << >>, item_id |-> None, existing |-> 0,
   short |-> FALSE, outcome |-> outcome]

\* the message on the page: which one, and how many lines it has
Page(shown) == [kind |-> shown.kind, lines |-> Len(shown.msgs)]

Init ==
  /\ items = << >>
  /\ transactions = << >>
  /\ clock = 0
  /\ ui = Page(Shown("none", << >>))
  /\ sess = [s \in Sessions |-> Idle("none")]

\* the page after a submit that led to the state r
Submitted(r) ==
  /\ items' = r.items
  /\ transactions' = r.transactions
  /\ ui' = Page(r.ui)
  /\ UNCHANGED <<clock, sess>>

\* the rows the transactions table has room for
Room == MaxLog - Len(transactions)

Min(a, b) == IF a < b THEN a ELSE b

\* The four submits, for forms filled from the given rows and codes drawn
\* with the given suffixes.  A submit is taken while the transactions table
\* has room for the rows it would write.
ReceiveSingleOf(rows, rands) ==
  /\ Room >= 1
  /\ \E it \in rows, rnd \in rands :
       Submitted(receive_single(items, transactions, it.name, it.unit,
                                it.quantity, clock, rnd))

ReceiveBatchOf(rows, rands) ==
  \E lines \in BatchesOf(rows, Min(MaxLines, Room)), rnd \in rands :
    Submitted(receive_batch(items, transactions, lines, clock, rnd))

IssueSingleOf(rows, rands) ==
  /\ Room >= 1
  /\ \E it \in rows, requester \in Requesters, rnd \in rands :
       Submitted(issue_single(items, transactions, it.name, it.unit,
                              it.quantity, requester, clock, rnd))

IssueBatchOf(rows, rands) ==
  \E lines \in BatchesOf(rows, Min(MaxLines, Room)),
     requester \in Requesters, rnd \in rands :
    Submitted(issue_batch(items, transactions, lines, requester, clock, rnd))

\* the wall clock passes to the next second
Tick ==
  /\ clock < MaxClock
  /\ clock' = clock + 1
  /\ UNCHANGED <<items, transactions, ui, sess>>

\* One session submitting receipts and issues of every kind of row, all
\* within one second.
ReceiveSingle == ReceiveSingleOf(Line, Rands)
ReceiveBatch == ReceiveBatchOf(Line, Rands)
IssueSingle == IssueSingleOf(Line, Rands)
IssueBatch == IssueBatchOf(Line, Rands)

Next == ReceiveSingle \/ ReceiveBatch \/ IssueSingle \/ IssueBatch

Spec == Init /\ [][Next]_vars

\* One session submitting receipts and issues of one unit of one item while
\* the clock runs: the transaction codes.
CodeReceiveSingle == ReceiveSingleOf(CodeLine, Rands)
CodeReceiveBatch == ReceiveBatchOf(CodeLine, Rands)
CodeIssueSingle == IssueSingleOf(CodeLine, Rands)
CodeIssueBatch == IssueBatchOf(CodeLine, Rands)

NextCodes ==
  CodeReceiveSingle \/ CodeReceiveBatch \/ CodeIssueSingle \/ CodeIssueBatch
    \/ Tick

SpecCodes == Init /\ [][NextCodes]_vars

\* Pengaturan, 'Reset seluruh DB': the tables are dropped, and init_db() at
\* the top of the next script run creates them again, empty, the ids
\* starting over
ResetDB ==
  /\ items' = << >>
  /\ transactions' = << >>
  /\ ui' = Page(Shown("reset", << >>))
  /\ UNCHANGED <<clock, sess>>

\* One session submitting receipts and issues, and resetting the database.
NextStore == Next \/ ResetDB

SpecStore == Init /\ [][NextStore]_vars

\* One session submitting receipts and issues of every kind of row, and
\* resetting the database, every code drawn with the one suffix: the stock
\* and the log apart from the codes.
StockReceiveSingle == ReceiveSingleOf(Line, {RandLo})
StockReceiveBatch == ReceiveBatchOf(Line, {RandLo})
StockIssueSingle == IssueSingleOf(Line, {RandLo})
StockIssueBatch == IssueBatchOf(Line, {RandLo})

NextStock ==
  StockReceiveSingle \/ StockReceiveBatch \/ StockIssueSingle
    \/ StockIssueBatch \/ ResetDB

SpecStock == Init /\ [][NextStock]_vars

\* ------------------------------------------------------------- sessions
\* Streamlit runs each session's script in a thread of its own, and every
\* helper opens its own connection and commits on its own: between two
\* statements of one session the statements of another can run.  A step below
\* is one statement on the database together with the Python around it.
\* The codes play no part here: every code is drawn with the suffix RandLo.

\* the well-formed rows the concurrent sessions submit: one item
ConcLine == {[name |-> NameA, unit |-> "kg", quantity |-> q] : q \in 1..MaxQty}

\* the forms the concurrent sessions submit: a single-item form, or a
\* multi-item form of one row or more
ConcForms ==
  {[batch |-> FALSE, lines |-> <<it>>] : it \in ConcLine}
    \cup {[batch |-> TRUE, lines |-> lines] :
            lines \in BatchesOf(ConcLine, MaxLines) \ {<< >>}}

\* the rows the running sessions have still to write
RECURSIVE Pending(_)
Pending(n) ==
  IF n = 0 THEN 0
  ELSE (IF sess[n].pc = "idle" THEN 0
        ELSE Len(sess[n].lines) - sess[n].idx + 1) + Pending(n - 1)

\* the fields pass (the forms here are well-formed); the code of a receipt is
\* drawn before its first upsert
BeginReceive(s) ==
  /\ sess[s].pc = "idle"
  /\ \E f \in ConcForms :
       /\ Len(transactions) + Pending(NumSessions) + Len(f.lines) <= MaxLog
       /\ validation_errors(f.lines, 1) = << >>
       /\ sess' = [sess EXCEPT ![s] =
                     [Idle("none") EXCEPT
                        !.pc = "upsert_select", !.trx_type = "in",
                        !.batch = f.batch, !.lines = f.lines, !.idx = 1,
                        !.trx_code = generate_trx_code("in", clock, RandLo)]]
  /\ UNCHANGED <<items, transactions, clock, ui>>

\* upsert_item: the SELECT and fetchone()
UpsertSelect(s) ==
  /\ sess[s].pc = "upsert_select"
  /\ LET it == sess[s].lines[sess[s].idx]
         row == select_item(items, strip(it.name), it.unit)
     IN sess' = [sess EXCEPT
                   ![s].pc = "upsert_write",
                   ![s].item_id = IF row = 0 THEN None ELSE items[row].id,
                   ![s].existing = IF row = 0 THEN 0 ELSE items[row].quantity]
  /\ UNCHANGED <<items, transactions, clock, ui>>

\* upsert_item: the UPDATE with the quantity computed from the row read, or
\* the INSERT; then commit
UpsertWrite(s) ==
  /\ sess[s].pc = "upsert_write"
  /\ LET it == sess[s].lines[sess[s].idx]
     IN IF sess[s].item_id # None
        THEN /\ items' = update_quantity(items, sess[s].item_id,
                                         sess[s].existing + it.quantity)
             /\ sess' = [sess EXCEPT ![s].pc = "record"]
        ELSE /\ items' = insert_item(items, strip(it.name), it.unit,
                                     it.quantity)
             /\ sess' = [sess EXCEPT ![s].pc = "record",
                                     ![s].item_id = Len(items) + 1]
  /\ UNCHANGED <<transactions, clock, ui>>

\* the fields pass; a single-item issue has drawn its code with the form, a
\* multi-item issue draws it after the stock check
BeginIssue(s) ==
  /\ sess[s].pc = "idle"
  /\ \E f \in ConcForms :
       /\ Len(transactions) + Pending(NumSessions) + Len(f.lines) <= MaxLog
       /\ validation_errors(f.lines, 1) = << >>
       /\ sess' = [sess EXCEPT ![s] =
                     [Idle("none") EXCEPT
                        !.pc = "check", !.trx_type = "out",
                        !.batch = f.batch, !.lines = f.lines, !.idx = 1,
                        !.trx_code = generate_trx_code("out", clock, RandLo)]]
  /\ UNCHANGED <<items, transactions, clock, ui>>

\* the handler's own SELECT quantity for one row of the form; after the last
\* row the submit is rejected if any row fell short, and goes on to the
\* deductions otherwise
CheckStock(s) ==
  /\ sess[s].pc = "check"
  /\ LET it == sess[s].lines[sess[s].idx]
         row == select_item(items, it.name, it.unit)
         short == sess[s].short
                    \/ row = 0 \/ items[row].quantity < it.quantity
     IN sess' = [sess EXCEPT ![s] =
                   IF sess[s].idx < Len(sess[s].lines)
                   THEN [@ EXCEPT !.idx = @ + 1, !.short = short]
                   ELSE IF short THEN Idle("rejected")
                   ELSE [@ EXCEPT !.pc = "adjust_select", !.idx = 1]]
  /\ UNCHANGED <<items, transactions, clock, ui>>

\* adjust_item_for_out: the SELECT, fetchone() and the two early returns
AdjustSelect(s) ==
  /\ sess[s].pc = "adjust_select"
  /\ LET it == sess[s].lines[sess[s].idx]
         row == select_item(items, it.name, it.unit)
     IN sess' = [sess EXCEPT ![s] =
                   IF row = 0 \/ items[row].quantity < it.quantity
                   THEN [@ EXCEPT !.pc = "record", !.item_id = None]
                   ELSE [@ EXCEPT !.pc = "adjust_write",
                                  !.item_id = items[row].id,
                                  !.existing = items[row].quantity]]
  /\ UNCHANGED <<items, transactions, clock, ui>>

\* adjust_item_for_out: the UPDATE with the quantity computed from the row
\* read; then commit
AdjustWrite(s) ==
  /\ sess[s].pc = "adjust_write"
  /\ LET it == sess[s].lines[sess[s].idx]
     IN items' = update_quantity(items, sess[s].item_id,
                                 sess[s].existing - it.quantity)
  /\ sess' = [sess EXCEPT ![s].pc = "record"]
  /\ UNCHANGED <<transactions, clock, ui>>

\* add_transaction_record for the row at hand; then the next row of the
\* form, or st.success
Record(s) ==
  /\ sess[s].pc = "record"
  /\ LET it == sess[s].lines[sess[s].idx]
     IN transactions' =
          add_transaction_record(transactions, sess[s].trx_type,
                                 sess[s].item_id, it.name, it.quantity,
                                 it.unit, sess[s].trx_code, sess[s].trx_code,
                                 clock)
  /\ sess' = [sess EXCEPT ![s] =
                IF sess[s].idx < Len(sess[s].lines)
                THEN [@ EXCEPT !.idx = @ + 1, !.item_id = None,
                               !.existing = 0,
                               !.pc = IF sess[s].trx_type = "in"
                                      THEN "upsert_select"
                                      ELSE "adjust_select"]
                ELSE Idle("ok")]
  /\ UNCHANGED <<items, clock, ui>>

NextConc ==
  \E s \in Sessions :
    \/ BeginReceive(s)
    \/ UpsertSelect(s)
    \/ UpsertWrite(s)
    \/ BeginIssue(s)
    \/ CheckStock(s)
    \/ AdjustSelect(s)
    \/ AdjustWrite(s)
    \/ Record(s)

SpecConc == Init /\ [][NextConc]_vars

\* ------------------------------------------------------------- reporting
\* A datetime is a number of seconds since 2024-01-01 00:00:00, a Monday,
\* and a calendar day the number of days since that date; the days modelled
\* lie in the first three months of 2024.

\* a cell of a DataFrame column (or an argument): a datetime.date (v: the
\* day), a Timestamp (v: the second), a string 'YYYY-NN' (v: YYYY * 100 + NN)
\* or None
Cell(type, v) == [type |-> type, v |-> v]

NoDate == Cell("None", 0)

\* the lengths of the months of 2024, January to March
MonthDays == <<31, 29, 31>>

\* the month the day d falls in, d counted from the first day of month m
RECURSIVE month_of(_, _)
month_of(d, m) ==
  IF m >= Len(MonthDays) \/ d < MonthDays[m] THEN m
  ELSE month_of(d - MonthDays[m], m + 1)

\* the first day of month m
RECURSIVE month_first(_)
month_first(m) == IF m = 1 THEN 0 ELSE month_first(m - 1) + MonthDays[m - 1]

\* created_at.dt.date
dt_date(t) == Cell("date", t \div 86400)

\* created_at.dt.to_period('M').dt.to_timestamp(): the month's first midnight
to_period_M(t) ==
  Cell("Timestamp", month_first(month_of(t \div 86400, 1)) * 86400)

\* created_at.dt.to_period('W').dt.start_time: the week's Monday, midnight
to_period_W(t) ==
  Cell("Timestamp", ((t \div 86400) - ((t \div 86400) % 7)) * 86400)

\* pd.to_datetime of a date or a Timestamp: a date becomes its midnight
to_datetime(c) ==
  IF c.type = "date" THEN Cell("Timestamp", c.v * 86400) ELSE c

\* .dt.strftime('%Y-%W'): the year and the number of the week, the weeks
\* starting on Monday and the days before the first Monday lying in week 00
strftime_W(c) ==
  LET d == c.v \div 86400
  IN Cell("str", 2024 * 100 + ((d + 7 - (d % 7)) \div 7))

\* .dt.strftime('%Y-%m')
strftime_m(c) == Cell("str", 2024 * 100 + month_of(c.v \div 86400, 1))

\* what a reporting function leaves behind: the frame it was handed, as it
\* is after the call, what it returns, and the exception it raised if any
Returned(df, out) == [df |-> df, out |-> out, raised |-> ""]

Raised(df, exc) == [df |-> df, out |-> {}, raised |-> exc]

\* SELECT * FROM transactions with created_at parsed, and the columns date,
\* month and week added unless the frame is empty
load_transactions_df(trs) ==
  [k \in 1..Len(trs) |->
     trs[k] @@ [date |-> dt_date(trs[k].created_at),
                month |-> to_period_M(trs[k].created_at),
                week |-> to_period_W(trs[k].created_at)]]

\* df[col] = f(df[col']) : the column written in place, row by row
SetDate(df) == [k \in 1..Len(df) |-> [df[k] EXCEPT !.date = to_datetime(@)]]

SetWeek(df) ==
  [k \in 1..Len(df) |-> [df[k] EXCEPT !.week = strftime_W(df[k].date)]]

SetMonth(df) ==
  [k \in 1..Len(df) |-> [df[k] EXCEPT !.month = strftime_m(df[k].date)]]

\* the bucket of a row: its week or its month column
Bucket(row, col) == IF col = "week" THEN row.week ELSE row.month

\* GroupSum that keeps the quantity of the last row of the group: .last()
RECURSIVE group_last(_, _, _, _)
group_last(df, k, col, key) ==
  IF k > Len(df) THEN 0
  ELSE LET rest == group_last(df, k + 1, col, key)
       IN IF /\ rest = 0
             /\ Bucket(df[k], col) = key.bucket /\ df[k].name = key.name
             /\ df[k].unit = key.unit /\ df[k].trx_type = key.trx_type
          THEN df[k].quantity ELSE rest

\* the sum of the quantities of the rows k.. of df that fall in one group
RECURSIVE GroupSum(_, _, _, _)
GroupSum(df, k, col, key) ==
  IF k > Len(df) THEN 0
  ELSE (IF /\ Bucket(df[k], col) = key.bucket /\ df[k].name = key.name
           /\ df[k].unit = key.unit /\ df[k].trx_type = key.trx_type
        THEN df[k].quantity ELSE 0)
       + GroupSum(df, k + 1, col, key)

\* df.groupby([col, 'name', 'unit', 'trx_type'])['quantity'].sum()
\* .reset_index(): one row for each group (pandas lists them sorted by key)
groupby_sum(df, col) ==
  {[bucket |-> Bucket(df[k], col), name |-> df[k].name, unit |-> df[k].unit,
    trx_type |-> df[k].trx_type,
    quantity |-> GroupSum(df, 1, col,
                          [bucket |-> Bucket(df[k], col), name |-> df[k].name,
                           unit |-> df[k].unit,
                           trx_type |-> df[k].trx_type])] :
     k \in 1..Len(df)}

\* summary_by_period that labels the buckets from the frame's own week and
\* month columns, which are Timestamps only until it has overwritten them
summary_from_bucket_columns(df, period) ==
  IF df = << >> THEN Returned(df, {})
  ELSE LET dated == SetDate(df)
           col == IF period = "W" THEN "week" ELSE "month"
       IN IF period \notin {"W", "M"} THEN Returned(dated, {})
          ELSE IF \E k \in 1..Len(df) : Bucket(df[k], col).type = "str"
          THEN Raised(dated, "AttributeError")
          ELSE LET labelled ==
                     [k \in 1..Len(df) |->
                        IF period = "W"
                        THEN [dated[k] EXCEPT !.week = strftime_W(@)]
                        ELSE [dated[k] EXCEPT !.month = strftime_m(@)]]
               IN Returned(labelled, groupby_sum(labelled, col))

summary_by_period(df, period) ==
  IF df = << >> THEN Returned(df, {})
  ELSE LET dated == SetDate(df)
       IN IF period = "W"
          THEN Returned(SetWeek(dated), groupby_sum(SetWeek(dated), "week"))
          ELSE IF period = "M"
          THEN Returned(SetMonth(dated), groupby_sum(SetMonth(dated), "month"))
          ELSE Returned(dated, {})

\* one row of the totals: the (name, unit) of an items row, the two sums and
\* the row's current quantity
TotalsRow(it, masuk, keluar) ==
  [name |-> it.name, unit |-> it.unit, total_masuk |-> masuk,
   total_keluar |-> keluar, stok_akhir |-> it.quantity]

\* period_df[period_df['trx_type'] == t].groupby(['name', 'unit'])
\* ['quantity'].sum() for one (name, unit), over the rows k.. of df that the
\* mask selects; 0 where there is no such group (fillna(0))
RECURSIVE PeriodSum(_, _, _, _, _, _)
PeriodSum(df, k, mask, trx_type, name, unit) ==
  IF k > Len(df) THEN 0
  ELSE (IF /\ k \in mask /\ df[k].trx_type = trx_type
           /\ df[k].name = name /\ df[k].unit = unit
        THEN df[k].quantity ELSE 0)
       + PeriodSum(df, k + 1, mask, trx_type, name, unit)

\* DateMask that compares the moment of a row, not its day, with the bounds
mask_by_created_at(df, date_from, date_to) ==
  {k \in 1..Len(df) :
     /\ date_from.type = "None"
          \/ df[k].created_at >= to_datetime(date_from).v
     /\ date_to.type = "None" \/ df[k].created_at <= to_datetime(date_to).v}

\* the rows of df whose date lies within the bounds that are given
DateMask(df, date_from, date_to) ==
  {k \in 1..Len(df) :
     /\ date_from.type = "None" \/ df[k].date.v >= to_datetime(date_from).v
     /\ date_to.type = "None" \/ df[k].date.v <= to_datetime(date_to).v}

\* totals_for_period that merges the sums with the items how='inner'
totals_inner_merge(its, df, date_from, date_to) ==
  IF df = << >>
  THEN Returned(df, [i \in 1..Len(its) |-> TotalsRow(its[i], 0, 0)])
  ELSE LET dated == SetDate(df)
           mask == DateMask(dated, date_from, date_to)
           matched == SelectSeq(its,
                        LAMBDA it : \E k \in mask : /\ dated[k].name = it.name
                                                    /\ dated[k].unit = it.unit)
       IN Returned(dated,
            [i \in 1..Len(matched) |->
               TotalsRow(matched[i],
                 PeriodSum(dated, 1, mask, "in", matched[i].name,
                           matched[i].unit),
                 PeriodSum(dated, 1, mask, "out", matched[i].name,
                           matched[i].unit))])

\* the sums of the 'in' and the 'out' rows of the window for each
\* (name, unit), merged how='right' with the rows of the items table as it is
\* now: one row for every items row, in their order
totals_for_period(its, df, date_from, date_to) ==
  IF df = << >>
  THEN Returned(df, [i \in 1..Len(its) |-> TotalsRow(its[i], 0, 0)])
  ELSE LET dated == SetDate(df)
           mask == DateMask(dated, date_from, date_to)
       IN Returned(dated,
            [i \in 1..Len(its) |->
               TotalsRow(its[i],
                 PeriodSum(dated, 1, mask, "in", its[i].name, its[i].unit),
                 PeriodSum(dated, 1, mask, "out", its[i].name,
                           its[i].unit))])

\* df_month['created_at'].dt.to_period('M').dt.to_created_at() on the copy of
\* the frame: the period accessor has no to_created_at, and the call raises
\* AttributeError for every frame and every pair of months
compare_months(df, month_a, month_b, items_list) ==
  Raised(df, "AttributeError")

\* the rows of trs from k on, latest created_at first
RECURSIVE order_by_created_at_desc(_)
order_by_created_at_desc(trs) ==
  IF trs = << >> THEN << >>
  ELSE LET k == CHOOSE i \in 1..Len(trs) :
                  /\ \A j \in 1..Len(trs) :
                       trs[j].created_at <= trs[i].created_at
                  /\ \A j \in 1..(i - 1) :
                       trs[j].created_at < trs[i].created_at
       IN <<trs[k]>>
            \o order_by_created_at_desc(SubSeq(trs, 1, k - 1)
                                          \o SubSeq(trs, k + 1, Len(trs)))

\* the workbook of the export: the sheet 'inventory' with the items and the
\* sheet 'transactions' with the log
export_db_to_excel(its, trs) ==
  [inventory |-> its, transactions |-> order_by_created_at_desc(trs)]

\* str(...).strip() of a unit; units are atoms here, and " kg" is the one
\* with whitespace around it
strip_unit(unit) == IF unit = " kg" THEN "kg" ELSE unit

\* load_inventory_from_excel: every row of the workbook's first sheet goes
\* through upsert_item, name and unit stripped; no row is written to the log
RECURSIVE load_inventory_from_excel(_, _, _)
load_inventory_from_excel(its, sheet, idx) ==
  IF idx > Len(sheet) THEN [items |-> its, inserted |-> Len(sheet)]
  ELSE load_inventory_from_excel(
         upsert_item(its, strip(sheet[idx].name), strip_unit(sheet[idx].unit),
                     sheet[idx].quantity).items,
         sheet, idx + 1)

\* Upload Inventaris: the state after a workbook is uploaded
upload_inventory(its, trs, book) ==
  [items |-> load_inventory_from_excel(its, book.inventory, 1).items,
   transactions |-> trs, ui |-> Shown("loaded", << >>)]

\* the latest of a set of month cells
LastMonth(months) == CHOOSE m \in months : \A n \in months : n.v <= m.v

\* Laporan & Analisis: the page for a period ('W' for Mingguan, 'M' for
\* Bulanan) and a window; one frame goes through totals_for_period,
\* summary_by_period and, when it holds two months or more, compare_months
\* for the last two of them
laporan(its, trs, period, date_from, date_to) ==
  LET df == load_transactions_df(trs)
      totals == totals_for_period(its, df, to_datetime(date_from),
                                  to_datetime(date_to))
      g == summary_by_period(totals.df, period)
      months == {g.df[k].month : k \in 1..Len(g.df)}
      m2 == LastMonth(months)
      m1 == LastMonth(months \ {m2})
      names == {g.df[k].name : k \in 1..Len(g.df)}
  IN [items |-> its, transactions |-> trs,
      ui |-> IF df = << >> THEN Shown("no_transactions", << >>)
             ELSE IF Cardinality(months) < 2 THEN Shown("report", totals.out)
             ELSE IF compare_months(g.df, m1, m2, names).raised # ""
             THEN Shown("exception", << >>)
             ELSE Shown("report", totals.out)]

\* Dashboard: the totals of all time
dashboard(its, trs) ==
  [items |-> its, transactions |-> trs,
   ui |-> Shown("dashboard",
                totals_for_period(its, load_transactions_df(trs), NoDate,
                                  NoDate).out)]

\* ------------------------------------------------------------- reports
\* One session that loads an inventory, receives and issues over three days
\* and opens the report pages: 2024-01-28 (a Sunday) at noon, 2024-01-31 at
\* noon, in the next week, and 2024-02-01 at midnight, in that same week and
\* the next month.
Stamps == <<27 * 86400 + 43200, 30 * 86400 + 43200, 31 * 86400>>

\* the dates picked on the report page
ReportDates == {Cell("date", d) : d \in {27, 30, 31}}

\* the rows of the forms
RptLine ==
  {[name |-> NameA, unit |-> "kg", quantity |-> 1],
   [name |-> NameSpA, unit |-> "kg", quantity |-> 1],
   [name |-> NameB, unit |-> "kg", quantity |-> 1]}

\* the workbooks uploaded: one item; two items, a unit with whitespace around
\* it; one item in two rows
Books ==
  {[inventory |-> sheet, transactions |-> << >>] :
     sheet \in {<<[name |-> NameA, unit |-> "kg", quantity |-> 2]>>,
                <<[name |-> NameB, unit |-> " kg", quantity |-> 1],
                  [name |-> NameA, unit |-> "kg", quantity |-> 2]>>,
                <<[name |-> NameSpA, unit |-> "kg", quantity |-> 1],
                  [name |-> NameA, unit |-> "kg", quantity |-> 1]>>}}

InitReport ==
  /\ items = << >>
  /\ transactions = << >>
  /\ clock = Stamps[1]
  /\ ui = Page(Shown("none", << >>))
  /\ sess = [s \in Sessions |-> Idle("none")]

RptReceive ==
  /\ Len(transactions) < MaxMoves
  /\ ReceiveSingleOf(RptLine, {RandLo})

RptIssue ==
  /\ Len(transactions) < MaxMoves
  /\ IssueSingleOf(RptLine, {RandLo})

\* a workbook is uploaded as the initial inventory, into the empty table
UploadInventory ==
  /\ items = << >>
  /\ \E book \in Books :
       Submitted(upload_inventory(items, transactions, book))

\* the wall clock passes to the next of the three moments
Sleep ==
  /\ \E n \in 1..(Len(Stamps) - 1) : clock = Stamps[n] /\ clock' = Stamps[n + 1]
  /\ UNCHANGED <<items, transactions, ui, sess>>

Laporan ==
  \E period \in {"W", "M"}, date_from \in ReportDates,
     date_to \in ReportDates :
    Submitted(laporan(items, transactions, period, date_from, date_to))

Dashboard == Submitted(dashboard(items, transactions))

NextReport ==
  RptReceive \/ RptIssue \/ UploadInventory \/ Sleep \/ Laporan \/ Dashboard

SpecReport == InitReport /\ [][NextReport]_vars

\* ------------------------------------------------------------- properties
RECURSIVE SumQty(_, _, _, _, _)
\* the sum of the quantities of the rows k..Len(trs) of the given direction
\* recorded for the item identity (normalized name, unit)
SumQty(trs, k, trx_type, name, unit) ==
  IF k > Len(trs) THEN 0
  ELSE (IF /\ trs[k].trx_type = trx_type
           /\ strip(trs[k].name) = name
           /\ trs[k].unit = unit
        THEN trs[k].quantity ELSE 0)
       + SumQty(trs, k + 1, trx_type, name, unit)

\* the rows of its that hold the given name and unit
RowsOf(its, name, unit) ==
  {i \in 1..Len(its) : its[i].name = name /\ its[i].unit = unit}

\* the quantity held under the given name and unit, 0 when there is no row
QtyOf(its, name, unit) ==
  IF RowsOf(its, name, unit) = {} THEN 0
  ELSE its[CHOOSE i \in RowsOf(its, name, unit) : TRUE].quantity

\* the multi-item forms that can be submitted in the current state
BatchesNow == BatchesOf(Line, Min(MaxLines, Room))

\* C1: after any sequence of single and batch receipts and issues, accepted
\* or rejected, no row of the items table holds a negative quantity.
C1_QuantityNeverNegative ==
  \A i \in 1..Len(items) : items[i].quantity >= 0

\* C1 witness: an issue was recorded against an item and that item's stock is
\* down to zero.
C1_Witness ==
  \E i \in 1..Len(items), k \in 1..Len(transactions) :
    /\ items[i].quantity = 0
    /\ transactions[k].trx_type = "out"
    /\ transactions[k].item_id = items[i].id

\* C2 as stated: a single-item issue that asks for more than the current
\* quantity of the named item is always rejected as insufficient stock,
\* reporting that quantity, and changes neither table.
C2_Original ==
  Room >= 1 =>
    \A it \in Line, requester \in Requesters, rnd \in Rands :
      \A i \in RowsOf(items, it.name, it.unit) :
        it.quantity > items[i].quantity =>
          LET r == issue_single(items, transactions, it.name, it.unit,
                                it.quantity, requester, clock, rnd)
          IN /\ r.ui.kind = "insufficient"
             /\ r.ui.msgs =
                  <<Msg(1, it.name, items[i].quantity, it.quantity)>>
             /\ r.items = items
             /\ r.transactions = transactions

\* C2 amended: a single-item issue with a requester filled in that asks for
\* more than the current quantity of the named item is rejected as
\* insufficient stock, reporting that quantity, and changes neither table;
\* without a requester it is rejected too, as a validation error.
C2_InsufficientIssueRejected ==
  Room >= 1 =>
    \A it \in Line, requester \in Requesters, rnd \in Rands :
      \A i \in RowsOf(items, it.name, it.unit) :
        it.quantity > items[i].quantity =>
          LET r == issue_single(items, transactions, it.name, it.unit,
                                it.quantity, requester, clock, rnd)
          IN /\ r.items = items
             /\ r.transactions = transactions
             /\ IF requester = ""
                THEN r.ui.kind = "validation"
                ELSE /\ r.ui.kind = "insufficient"
                     /\ r.ui.msgs =
                          <<Msg(1, it.name, items[i].quantity, it.quantity)>>

\* C2 witness: the page shows the insufficient-stock error while an item
\* holds stock, though less than the form can ask for.
C2_Witness ==
  /\ ui.kind = "insufficient"
  /\ \E i \in 1..Len(items) :
       items[i].quantity > 0 /\ items[i].quantity < MaxQty

\* a row of a batch issue that names no item, or asks for more than the item
\* holds
LineFails(its, it) ==
  \/ RowsOf(its, it.name, it.unit) = {}
  \/ \E i \in RowsOf(its, it.name, it.unit) : its[i].quantity < it.quantity

\* C3: a batch issue with at least one row that names an absent (name, unit)
\* or asks for more than the item held before the batch is rejected whole:
\* neither table changes.
C3_BatchIssueAllOrNothing ==
  \A lines \in BatchesNow, requester \in Requesters, rnd \in Rands :
    (\E k \in 1..Len(lines) : LineFails(items, lines[k])) =>
      LET r == issue_batch(items, transactions, lines, requester, clock, rnd)
      IN /\ r.ui.kind \notin {"ok", "none"}
         /\ r.items = items
         /\ r.transactions = transactions

\* C3 witness: the page shows a batch rejected on stock while two items are
\* in the table, both with stock, and no issue has been recorded.
C3_Witness ==
  /\ ui.kind = "rejected"
  /\ Len(items) = 2
  /\ \A i \in 1..Len(items) : items[i].quantity > 0
  /\ \A k \in 1..Len(transactions) : transactions[k].trx_type = "in"

\* the session has committed a write of its submit and has a row of it still
\* to append: an item updated whose movement is not yet written, or a later
\* row of the form not yet reached
MidCommit(s) ==
  /\ sess[s].pc # "idle"
  /\ \/ sess[s].pc \in {"upsert_select", "upsert_write", "adjust_select",
                        "adjust_write", "record"} /\ sess[s].idx > 1
     \/ sess[s].pc = "record" /\ sess[s].item_id # None

\* C4 as stated: every state another session can read holds all of a
\* submit's item updates and movement rows, or none of them.
C4_SubmitsAreAtomic ==
  \A s \in Sessions : ~MidCommit(s)

\* C5 as stated: for every item, the current quantity is the sum of the 'in'
\* rows recorded for its (name, unit) less the sum of the 'out' rows recorded
\* for it (a row counts for the item its normalized name and unit identify).
C5_LedgerReconciles ==
  \A i \in 1..Len(items) :
    items[i].quantity =
      SumQty(transactions, 1, "in", items[i].name, items[i].unit)
        - SumQty(transactions, 1, "out", items[i].name, items[i].unit)

\* the sum of the quantities of the rows k..Len(trs) of the given direction
\* that carry the given item id
RECURSIVE SumById(_, _, _, _)
SumById(trs, k, trx_type, item_id) ==
  IF k > Len(trs) THEN 0
  ELSE (IF trs[k].trx_type = trx_type /\ trs[k].item_id = item_id
        THEN trs[k].quantity ELSE 0)
       + SumById(trs, k + 1, trx_type, item_id)

\* C6 as stated: once the concurrent submits are through, every item holds
\* what was received less what was issued, counting the rows of the log that
\* carry its id: no update is lost and no issue is recorded against stock
\* that another issue took.
C6_NoLostUpdate ==
  (\A s \in Sessions : sess[s].pc = "idle") =>
    \A i \in 1..Len(items) :
      items[i].quantity =
        SumById(transactions, 1, "in", items[i].id)
          - SumById(transactions, 1, "out", items[i].id)

\* a name, unit and quantity that pass the field validation
WellFormed == {it \in Line : ~bad_fields(it.name, it.unit, it.quantity)}

\* C7: two single-item receipts of the same (name, unit), one right after the
\* other, leave exactly one item for the pair, holding q1 + q2 more than
\* before, and write two rows that carry that item's id.
C7_ReceiptsAccumulate ==
  Room >= 2 =>
    \A it \in WellFormed, q2 \in 1..MaxQty, rnd1 \in Rands, rnd2 \in Rands :
      LET nm == strip(it.name)
          r1 == receive_single(items, transactions, it.name, it.unit,
                               it.quantity, clock, rnd1)
          r2 == receive_single(r1.items, r1.transactions, it.name, it.unit,
                               q2, clock, rnd2)
          n == Len(transactions)
      IN /\ Cardinality(RowsOf(r2.items, nm, it.unit)) = 1
         /\ QtyOf(r2.items, nm, it.unit)
              = QtyOf(items, nm, it.unit) + it.quantity + q2
         /\ Len(r2.transactions) = n + 2
         /\ r2.transactions[n + 1].item_id = r2.transactions[n + 2].item_id
         /\ \A i \in RowsOf(r2.items, nm, it.unit) :
              r2.transactions[n + 1].item_id = r2.items[i].id
         /\ SubSeq(r2.transactions, 1, n) = transactions

\* C7 witness: the last two rows of the log are receipts of one (name, unit)
\* with different quantities, both carry the id of the one item of that pair,
\* and the item holds their sum.
C7_Witness ==
  LET n == Len(transactions)
  IN /\ n = 2
     /\ transactions[1].trx_type = "in"
     /\ transactions[2].trx_type = "in"
     /\ transactions[1].name = transactions[2].name
     /\ transactions[1].unit = transactions[2].unit
     /\ transactions[1].quantity # transactions[2].quantity
     /\ transactions[1].bundle_code # transactions[2].bundle_code
     /\ transactions[1].item_id = transactions[2].item_id
     /\ Len(items) = 1
     /\ items[1].id = transactions[1].item_id
     /\ items[1].quantity
          = transactions[1].quantity + transactions[2].quantity

\* the rows a submit that led to the state r has written
NewRows(r) ==
  {r.transactions[k] : k \in (Len(transactions) + 1)..Len(r.transactions)}

OldRows == {transactions[k] : k \in 1..Len(transactions)}

\* the states the four submits lead to, for forms of one unit of one item
CodeSubmits ==
  {receive_batch(items, transactions, lines, clock, rnd) :
     lines \in BatchesOf(CodeLine, Min(MaxLines, Room)), rnd \in Rands}
  \cup {issue_batch(items, transactions, lines, "r", clock, rnd) :
          lines \in BatchesOf(CodeLine, Min(MaxLines, Room)), rnd \in Rands}
  \cup (IF Room = 0 THEN {}
        ELSE {receive_single(items, transactions, it.name, it.unit,
                             it.quantity, clock, rnd) :
                it \in CodeLine, rnd \in Rands}
             \cup {issue_single(items, transactions, it.name, it.unit,
                                it.quantity, "r", clock, rnd) :
                     it \in CodeLine, rnd \in Rands})

\* C8 as stated: the rows one submit writes all carry one bundle_code, and
\* no row written by an earlier submit carries it.
C8_Original ==
  \A r \in CodeSubmits :
    /\ \A m \in NewRows(r), n \in NewRows(r) : m.bundle_code = n.bundle_code
    /\ \A o \in OldRows, n \in NewRows(r) : o.bundle_code # n.bundle_code

\* C8 amended: the rows one submit writes all carry one bundle_code, its
\* trx_code; a row written by an earlier submit carries the same code only
\* if that submit had the same direction and took its code in the same clock
\* second (and drew the same suffix).
C8_BundleCodesGroup ==
  \A r \in CodeSubmits :
    /\ \A m \in NewRows(r), n \in NewRows(r) :
         m.bundle_code = n.bundle_code /\ m.trx_code = m.bundle_code
    /\ \A o \in OldRows, n \in NewRows(r) :
         o.bundle_code = n.bundle_code =>
           o.trx_type = n.trx_type /\ o.created_at = n.created_at

\* C8 witness: a batch wrote two rows under one code, and a later submit in
\* the other direction, in a later second, wrote a row under another code.
C8_Witness ==
  /\ Len(transactions) = 3
  /\ transactions[1].bundle_code = transactions[2].bundle_code
  /\ transactions[3].bundle_code # transactions[1].bundle_code
  /\ transactions[3].trx_type # transactions[1].trx_type
  /\ transactions[3].created_at > transactions[1].created_at

\* the rows of a form that fail the field validation
BadRows(lines) ==
  {k \in 1..Len(lines) :
     lines[k].name = << >> \/ lines[k].unit = "" \/ lines[k].quantity <= 0}

\* C9: a single-item receipt with an empty name, an empty unit or a quantity
\* <= 0 is rejected and changes neither table; a batch receipt with such a
\* row is rejected whole, with one message for each such row, and changes
\* neither table.
C9_ReceiptValidationAllOrNothing ==
  /\ Room >= 1 =>
       \A it \in Line, rnd \in Rands :
         (it.name = << >> \/ it.unit = "" \/ it.quantity <= 0) =>
           LET r == receive_single(items, transactions, it.name, it.unit,
                                   it.quantity, clock, rnd)
           IN /\ r.ui.kind = "validation"
              /\ r.items = items
              /\ r.transactions = transactions
  /\ \A lines \in BatchesNow, rnd \in Rands :
       BadRows(lines) # {} =>
         LET r == receive_batch(items, transactions, lines, clock, rnd)
         IN /\ r.ui.kind = "validation"
            /\ Len(r.ui.msgs) = Cardinality(BadRows(lines))
            /\ {r.ui.msgs[m].row : m \in 1..Len(r.ui.msgs)} = BadRows(lines)
            /\ r.items = items
            /\ r.transactions = transactions

\* C9 witness: the page shows a validation error of two lines, as a batch
\* with two malformed rows gives, while the store holds an item.
C9_Witness ==
  /\ ui.kind = "validation"
  /\ ui.lines = 2
  /\ Len(items) >= 1

\* C10 as stated: every row of the log carries the id of an item of the
\* items table, never None.
C10_MovementReferencesItem ==
  \A k \in 1..Len(transactions) :
    /\ transactions[k].item_id # None
    /\ \E i \in 1..Len(items) : items[i].id = transactions[k].item_id

\* C11: every row of the log, written by any single or batch receipt or
\* issue, has a quantity > 0.
C11_MovementQuantityPositive ==
  \A k \in 1..Len(transactions) : transactions[k].quantity > 0

\* C11 witness: the log holds a receipt and an issue, and the page shows a
\* validation error of one line: a batch whose row had a quantity of 0 or
\* another bad field was turned away after them.
C11_Witness ==
  /\ Len(transactions) = 2
  /\ transactions[1].trx_type = "in"
  /\ transactions[2].trx_type = "out"
  /\ ui.kind = "validation"
  /\ ui.lines = 1

\* the log after a step holds the log before it, row for row, as its first
\* rows
LogExtended ==
  /\ Len(transactions') >= Len(transactions)
  /\ SubSeq(transactions', 1, Len(transactions)) = transactions

\* C12: the log is append-only: every step other than the reset of the
\* database leaves the rows already written as they are, in place, and only
\* adds rows after them.
C12_LogAppendOnly == [][ResetDB \/ LogExtended]_vars

\* C12 witness: three rows written by two submits, a batch receipt and an
\* issue after it, stand in the log under the ids 1, 2, 3.
C12_Witness ==
  /\ Len(transactions) = 3
  /\ \A k \in 1..3 : transactions[k].id = k
  /\ transactions[1].trx_type = "in"
  /\ transactions[1].bundle_code = transactions[2].bundle_code
  /\ transactions[3].trx_type = "out"
  /\ transactions[3].bundle_code # transactions[2].bundle_code
  /\ ui.kind = "ok"

\* C19: a single-item issue with an empty name, unit or requester, or a
\* quantity <= 0, is rejected as a validation error; one with valid fields
\* that names a (name, unit) the items table does not hold is rejected as
\* not found, which is another message than the one for insufficient stock
\* (shown only for an item that exists); every rejected issue leaves both
\* tables as they were.  (The code drawn with the form plays no part in a
\* rejection; it is drawn with the suffix RandLo.)
C19_SingleIssueRejections ==
  \A it \in Line, requester \in Requesters :
    LET r == issue_single(items, transactions, it.name, it.unit, it.quantity,
                          requester, clock, RandLo)
        invalid == \/ it.name = << >> \/ it.unit = ""
                   \/ requester = "" \/ it.quantity <= 0
    IN /\ invalid => r.ui.kind = "validation"
       /\ (~invalid /\ RowsOf(items, it.name, it.unit) = {})
            => r.ui.kind = "not_found"
       /\ r.ui.kind = "insufficient" => RowsOf(items, it.name, it.unit) # {}
       /\ r.ui.kind # "ok" => r.items = items /\ r.transactions = transactions

\* C19 witness: the page shows the not-found error while the items table
\* holds an item with stock and the log its receipt: an issue with valid
\* fields named another (name, unit).
C19_Witness ==
  /\ ui.kind = "not_found"
  /\ Len(items) = 1
  /\ items[1].quantity > 0
  /\ Len(transactions) = 1

\* every row of the items table is after the step the row it was before it,
\* in its place, under its id, name and unit
ItemsKept ==
  \A i \in 1..Len(items) :
    /\ i <= Len(items')
    /\ items'[i].id = items[i].id
    /\ items'[i].name = items[i].name
    /\ items'[i].unit = items[i].unit

\* C20: an item a receipt has created stays in the items table through every
\* later receipt and issue, also one that brings its quantity to 0; only the
\* reset of the database removes items.
C20_ItemsPersist == [][ResetDB \/ ItemsKept]_vars

\* C20 witness: the first item is down to 0 after an issue recorded against
\* it, and it is still in the table after a later receipt created a second
\* item.
C20_Witness ==
  /\ Len(items) = 2
  /\ items[1].quantity = 0
  /\ Len(transactions) = 3
  /\ transactions[2].trx_type = "out"
  /\ transactions[2].item_id = items[1].id
  /\ transactions[3].trx_type = "in"
  /\ transactions[3].item_id = items[2].id

\* the windows a report can be asked for: each side a date or left open
Windows == ReportDates \cup {NoDate}

\* the frame the reports are computed from in the current state
FrameNow == load_transactions_df(transactions)

\* the months the three moments fall in, as month-start Timestamps
MonthCells == {to_period_M(Stamps[n]) : n \in 1..Len(Stamps)}

\* C13 as stated: summary_by_period, totals_for_period and compare_months
\* leave the log data handed to them as it was (the two tables they have no
\* statement to write to).
C13_AggregationReadOnly ==
  /\ \A period \in {"W", "M"} :
       summary_by_period(FrameNow, period).df = FrameNow
  /\ \A date_from \in Windows, date_to \in Windows :
       totals_for_period(items, FrameNow, date_from, date_to).df = FrameNow
  /\ \A month_a \in MonthCells, month_b \in MonthCells :
       compare_months(FrameNow, month_a, month_b, {}).df = FrameNow

\* the other period
Other(period) == IF period = "W" THEN "M" ELSE "W"

\* C14: summary_by_period called twice with the same period on the frame of
\* an unchanged log returns the same rows both times, the second call
\* working on the frame as the first call left it, also with a call for the
\* other period in between.
C14_SummaryIdempotent ==
  \A period \in {"W", "M"} :
    LET first == summary_by_period(FrameNow, period)
        second == summary_by_period(first.df, period)
        between == summary_by_period(first.df, Other(period))
        third == summary_by_period(between.df, period)
    IN /\ first.raised = "" /\ second.raised = "" /\ third.raised = ""
       /\ second.out = first.out
       /\ third.out = first.out

\* C14 witness: the report page was drawn from a log of two receipts of one
\* (name, unit) made in different weeks of one month.
C14_Witness ==
  /\ ui.kind = "report"
  /\ Len(transactions) = 2
  /\ transactions[1].name = transactions[2].name
  /\ transactions[1].trx_type = transactions[2].trx_type
  /\ to_period_W(transactions[1].created_at)
       # to_period_W(transactions[2].created_at)
  /\ to_period_M(transactions[1].created_at)
       = to_period_M(transactions[2].created_at)

\* the rows of the log whose calendar day lies in the window
RowsInWindow(date_from, date_to) ==
  {k \in 1..Len(transactions) :
     /\ date_from.type = "None"
          \/ transactions[k].created_at \div 86400 >= date_from.v
     /\ date_to.type = "None"
          \/ transactions[k].created_at \div 86400 <= date_to.v}

\* C15: for any window, totals_for_period returns exactly one row for every
\* (name, unit) of the items table and no other row; an item that no row of
\* the log in the window names or refers to has total_masuk = 0 and
\* total_keluar = 0; and stok_akhir is the item's current quantity.
C15_TotalsOneRowPerItem ==
  \A date_from \in Windows, date_to \in Windows :
    LET out == totals_for_period(items, FrameNow, date_from, date_to).out
        rows(i) == {r \in 1..Len(out) : /\ out[r].name = items[i].name
                                        /\ out[r].unit = items[i].unit}
    IN /\ \A i \in 1..Len(items) :
            /\ Cardinality(rows(i)) = 1
            /\ \A r \in rows(i) :
                 /\ out[r].stok_akhir = items[i].quantity
                 /\ (\A k \in RowsInWindow(date_from, date_to) :
                       /\ transactions[k].item_id # items[i].id
                       /\ ~(/\ transactions[k].name = items[i].name
                            /\ transactions[k].unit = items[i].unit))
                      => out[r].total_masuk = 0 /\ out[r].total_keluar = 0
       /\ \A r \in 1..Len(out) : \E i \in 1..Len(items) : r \in rows(i)

\* C15 witness: the report page shows two rows of totals, for two items of
\* which one was uploaded and has no row in the log, while the log holds
\* rows for the other.
C15_Witness ==
  /\ ui.kind = "report"
  /\ ui.lines = 2
  /\ Len(items) = 2
  /\ Len(transactions) >= 1
  /\ \E i \in 1..2 : /\ items[i].quantity > 0
                     /\ \A k \in 1..Len(transactions) :
                          transactions[k].item_id # items[i].id

\* the sum of the quantities of the 'out' rows k.. of the log under a name
\* made in the month that starts at the given Timestamp
RECURSIVE OutTotal(_, _, _)
OutTotal(k, name, month) ==
  IF k > Len(transactions) THEN 0
  ELSE (IF /\ transactions[k].trx_type = "out"
           /\ transactions[k].name = name
           /\ to_period_M(transactions[k].created_at) = month
        THEN transactions[k].quantity ELSE 0)
       + OutTotal(k + 1, name, month)

NamesNow == {transactions[k].name : k \in 1..Len(transactions)}

\* C16 as stated: for every name whose 'out' total in month_a is not 0,
\* compare_months(month_a, month_b) has a row with difference =
\* total_b - total_a and pct_change = difference / total_a * 100, the totals
\* being those of the 'out' rows alone.
C16_CompareMonthsDifference ==
  \A month_a \in MonthCells :
    \A month_b \in MonthCells \ {month_a}, name \in NamesNow :
      LET cmp == compare_months(FrameNow, month_a, month_b, {})
          total_a == OutTotal(1, name, month_a)
          total_b == OutTotal(1, name, month_b)
      IN total_a # 0 =>
           \E row \in cmp.out :
             /\ row.name = name
             /\ row.difference = total_b - total_a
             /\ row.pct_change * total_a = row.difference * 100

\* C17 as stated: a name with 'out' rows in only one of the two months still
\* has one row in compare_months, the missing month's total being 0 and
\* difference = total_b - total_a; pct_change is null exactly when
\* total_a = 0.
C17_CompareMonthsMissing ==
  \A month_a \in MonthCells :
    \A month_b \in MonthCells \ {month_a}, name \in NamesNow :
      LET cmp == compare_months(FrameNow, month_a, month_b, {})
          total_a == OutTotal(1, name, month_a)
          total_b == OutTotal(1, name, month_b)
      IN ((total_a = 0) # (total_b = 0)) =>
           /\ Cardinality({row \in cmp.out : row.name = name}) = 1
           /\ \A row \in cmp.out :
                row.name = name =>
                  /\ row.total_a = total_a /\ row.total_b = total_b
                  /\ row.difference = total_b - total_a
                  /\ (row.pct_change = NoDate) = (total_a = 0)

\* the store after the export of the whole database is uploaded into an
\* empty one
ReImported ==
  upload_inventory(<< >>, << >>, export_db_to_excel(items, transactions))

\* C18 as stated: the store that comes of exporting the whole database and
\* importing the export into an empty store gives the same summaries,
\* totals and comparisons as the store exported.
C18_RoundTrip ==
  LET again == load_transactions_df(ReImported.transactions)
  IN /\ \A period \in {"W", "M"} :
          summary_by_period(again, period).out
            = summary_by_period(FrameNow, period).out
     /\ \A date_from \in Windows, date_to \in Windows :
          totals_for_period(ReImported.items, again, date_from, date_to).out
            = totals_for_period(items, FrameNow, date_from, date_to).out
     /\ \A month_a \in MonthCells, month_b \in MonthCells :
          LET before == compare_months(FrameNow, month_a, month_b, {})
              after == compare_months(again, month_a, month_b, {})
          IN before.out = after.out /\ before.raised = after.raised

\* ------------------------------------------------------------- batches
\* every row of the form passes the field validation
AllWellFormed(lines) ==
  \A k \in 1..Len(lines) :
    ~bad_fields(lines[k].name, lines[k].unit, lines[k].quantity)

\* the rows of the form that name one item (name, unit) of the table
LinesOf(lines, name, unit) ==
  {k \in 1..Len(lines) : lines[k].name = name /\ lines[k].unit = unit}

\* C21 as stated: a batch issue whose rows all pass the field validation is
\* accepted exactly when every row, taken by itself, names an item of the
\* table that holds at least the row's quantity before the batch.
C21_Original ==
  \A lines \in BatchesNow, requester \in Requesters :
    AllWellFormed(lines) =>
      LET r == issue_batch(items, transactions, lines, requester, clock,
                           RandLo)
      IN r.ui.kind = "ok"
           <=> \A k \in 1..Len(lines) : ~LineFails(items, lines[k])

\* C21 amended: a batch issue of at least one row, with the requester filled
\* in, whose rows all pass the field validation is accepted exactly when
\* every row, taken by itself, names an item of the table that holds at least
\* the row's quantity before the batch -- also when two rows name one item
\* and ask together for more than it holds.
C21_SufficiencyAgainstSnapshot ==
  \A lines \in BatchesNow :
    (lines # << >> /\ AllWellFormed(lines)) =>
      LET r == issue_batch(items, transactions, lines, "r", clock, RandLo)
      IN r.ui.kind = "ok"
           <=> \A k \in 1..Len(lines) : ~LineFails(items, lines[k])

\* C21 witness: a batch issue was accepted whose two rows named one item and
\* asked together for more than it held: the second row is in the log without
\* an item id, and the item is left with what the first row did not take.
C21_Witness ==
  /\ ui.kind = "ok"
  /\ Len(transactions) = 3
  /\ transactions[2].trx_type = "out"
  /\ transactions[3].trx_type = "out"
  /\ transactions[2].bundle_code = transactions[3].bundle_code
  /\ transactions[2].name = transactions[3].name
  /\ transactions[2].item_id # None
  /\ transactions[3].item_id = None

\* the sum of the quantities of the rows k..Len(lines) of the form that name
\* the given item
RECURSIVE SumLines(_, _, _, _)
SumLines(lines, k, name, unit) ==
  IF k > Len(lines) THEN 0
  ELSE (IF lines[k].name = name /\ lines[k].unit = unit
        THEN lines[k].quantity ELSE 0) + SumLines(lines, k + 1, name, unit)

\* C22 as stated: a batch issue of n rows that is accepted and reported as
\* saved appends exactly n 'out' rows to the log, all under one bundle_code,
\* and leaves every item with its quantity less the sum of the quantities of
\* the rows that name it.
C22_BatchIssueCommits ==
  \A lines \in BatchesNow :
    LET r == issue_batch(items, transactions, lines, "r", clock, RandLo)
        n == Len(transactions)
    IN r.ui.kind = "ok" =>
         /\ Len(r.transactions) = n + Len(lines)
         /\ SubSeq(r.transactions, 1, n) = transactions
         /\ \A k \in 1..Len(lines) :
              /\ r.transactions[n + k].trx_type = "out"
              /\ r.transactions[n + k].bundle_code
                   = r.transactions[n + 1].bundle_code
         /\ Len(r.items) = Len(items)
         /\ \A i \in 1..Len(items) :
              r.items[i].quantity
                = items[i].quantity
                    - SumLines(lines, 1, items[i].name, items[i].unit)

\* the sum of the quantities of the rows k..Len(lines) of the form whose
\* normalized name and unit are the given ones
RECURSIVE SumReceived(_, _, _, _)
SumReceived(lines, k, name, unit) ==
  IF k > Len(lines) THEN 0
  ELSE (IF strip(lines[k].name) = name /\ lines[k].unit = unit
        THEN lines[k].quantity ELSE 0)
       + SumReceived(lines, k + 1, name, unit)

\* C23: a batch receipt of n rows that is accepted appends exactly n 'in'
\* rows to the log, the k-th of them for the k-th row of the form, all with
\* the one code generated for the batch as trx_code and bundle_code; and for
\* every row of the form there is exactly one item of its normalized name and
\* unit, the k-th log row carries its id, and it holds what it held before
\* plus the quantities of the rows of the form that name it.  An item no row
\* names is left as it was.
C23_BatchReceiptCommits ==
  \A lines \in BatchesNow, rnd \in Rands :
    LET r == receive_batch(items, transactions, lines, clock, rnd)
        n == Len(transactions)
        code == generate_trx_code("in", clock, rnd)
    IN r.ui.kind = "ok" =>
         /\ Len(r.transactions) = n + Len(lines)
         /\ SubSeq(r.transactions, 1, n) = transactions
         /\ \A k \in 1..Len(lines) :
              LET m == r.transactions[n + k]
                  nm == strip(lines[k].name)
              IN /\ m.trx_type = "in"
                 /\ m.name = lines[k].name
                 /\ m.unit = lines[k].unit
                 /\ m.quantity = lines[k].quantity
                 /\ m.bundle_code = code
                 /\ m.trx_code = code
                 /\ Cardinality(RowsOf(r.items, nm, lines[k].unit)) = 1
                 /\ \A i \in RowsOf(r.items, nm, lines[k].unit) :
                      m.item_id = r.items[i].id
                 /\ QtyOf(r.items, nm, lines[k].unit)
                      = QtyOf(items, nm, lines[k].unit)
                          + SumReceived(lines, 1, nm, lines[k].unit)
         /\ \A i \in 1..Len(items) :
              SumReceived(lines, 1, items[i].name, items[i].unit) = 0
                => r.items[i] = items[i]

\* C23 witness: an accepted batch receipt of two rows, for two items and
\* with two quantities, wrote rows 2 and 3 of the log in the order of the
\* form, under one code, after a receipt that had created the second item.
C23_Witness ==
  /\ ui.kind = "ok"
  /\ Len(transactions) = 3
  /\ Len(items) = 2
  /\ \A k \in 1..3 : transactions[k].trx_type = "in"
  /\ transactions[2].bundle_code = transactions[3].bundle_code
  /\ transactions[2].trx_code = transactions[2].bundle_code
  /\ transactions[2].item_id = items[2].id
  /\ transactions[3].item_id = items[1].id
  /\ transactions[2].quantity # transactions[3].quantity
  /\ items[1].quantity
       = transactions[1].quantity + transactions[3].quantity

\* C24 as stated: a receipt or an issue that names an item with blanks around
\* the name addresses the item a receipt or an issue of the trimmed name and
\* the same unit addresses: it is accepted or turned away alike and leaves
\* the items table alike; and every row of the log that carries the id of an
\* item carries that item's name and unit.
C24_NormalizedIdentity ==
  /\ Room >= 1 =>
       \A it \in WellFormed :
         LET nm == strip(it.name)
             ra == receive_single(items, transactions, it.name, it.unit,
                                  it.quantity, clock, RandLo)
             rb == receive_single(items, transactions, nm, it.unit,
                                  it.quantity, clock, RandLo)
             ia == issue_single(items, transactions, it.name, it.unit,
                                it.quantity, "r", clock, RandLo)
             ib == issue_single(items, transactions, nm, it.unit,
                                it.quantity, "r", clock, RandLo)
         IN /\ ra.ui.kind = rb.ui.kind /\ ra.items = rb.items
            /\ ia.ui.kind = ib.ui.kind /\ ia.items = ib.items
  /\ \A k \in 1..Len(transactions), i \in 1..Len(items) :
       transactions[k].item_id = items[i].id =>
         /\ transactions[k].name = items[i].name
         /\ transactions[k].unit = items[i].unit

\* C25: adjust_item_for_out(name, unit, q) succeeds exactly when the items
\* table holds a row for (name, unit) with a quantity >= q.  On success it
\* returns that row's id and the row holds exactly q less than before (0 when
\* q was the whole stock), every other row as it was; on failure the table is
\* as it was, no id is returned, and the failure for lack of stock reports
\* the quantity the row holds.
C25_DeductOnIssue ==
  \A it \in Line :
    LET a == adjust_item_for_out(items, it.name, it.unit, it.quantity)
        rows == RowsOf(items, it.name, it.unit)
    IN /\ a.err = ""
            <=> \E i \in rows : items[i].quantity >= it.quantity
       /\ a.err = "" =>
            /\ Len(a.items) = Len(items)
            /\ \A i \in 1..Len(items) :
                 a.items[i] =
                   IF i \in rows
                   THEN [items[i] EXCEPT !.quantity = @ - it.quantity]
                   ELSE items[i]
            /\ \A i \in rows : a.item_id = items[i].id
       /\ a.err # "" =>
            /\ a.items = items
            /\ a.item_id = None
            /\ a.err = IF rows = {} THEN "not_found" ELSE "insufficient"
            /\ \A i \in rows : a.avail = items[i].quantity

\* C25 witness: an issue took the whole stock of an item of two units in one
\* go: the item is at 0, its receipt and its issue are in the log with the
\* same quantity, and a second item is untouched.
C25_Witness ==
  /\ Len(items) = 2
  /\ Len(transactions) = 3
  /\ transactions[3].trx_type = "out"
  /\ transactions[3].quantity = MaxQty
  /\ \E i \in 1..2 :
       /\ transactions[3].item_id = items[i].id
       /\ items[i].quantity = 0
       /\ items[3 - i].quantity > 0

\* the items table its holds in every place i outside rows the row that the
\* table before held there
OthersKept(before, its, rows) ==
  \A i \in 1..Len(before) :
    i \notin rows => i <= Len(its) /\ its[i] = before[i]

\* C26: a single-item receipt or issue of (name, unit) that is accepted
\* leaves the row of every other item as it was; a receipt of a (name, unit)
\* the table holds adds its quantity to the row held and adds no row, and a
\* receipt of a (name, unit) the table does not hold adds one row with that
\* quantity; an accepted issue takes its quantity from the row of its item
\* and leaves the number of rows as it is.
C26_OnlyTheNamedItemChanges ==
  Room >= 1 =>
    \A it \in WellFormed :
      LET nm == strip(it.name)
          held == RowsOf(items, nm, it.unit)
          r == receive_single(items, transactions, it.name, it.unit,
                              it.quantity, clock, RandLo)
          named == RowsOf(items, it.name, it.unit)
          s == issue_single(items, transactions, it.name, it.unit,
                            it.quantity, "r", clock, RandLo)
      IN /\ r.ui.kind = "ok"
         /\ OthersKept(items, r.items, held)
         /\ Cardinality(RowsOf(r.items, nm, it.unit)) = 1
         /\ Len(r.items) = Len(items) + (IF held = {} THEN 1 ELSE 0)
         /\ QtyOf(r.items, nm, it.unit)
              = QtyOf(items, nm, it.unit) + it.quantity
         /\ OthersKept(items, s.items, named)
         /\ Len(s.items) = Len(items)
         /\ s.ui.kind = "ok" =>
              QtyOf(s.items, it.name, it.unit)
                = QtyOf(items, it.name, it.unit) - it.quantity

\* C26 witness: two items are in the table; the first was received twice and
\* holds the sum of its two receipts in its one row, while the second, which
\* was received in between, holds what its own receipt brought.
C26_Witness ==
  /\ Len(items) = 2
  /\ Len(transactions) = 3
  /\ \A k \in 1..3 : transactions[k].trx_type = "in"
  /\ transactions[1].item_id = items[1].id
  /\ transactions[2].item_id = items[2].id
  /\ transactions[3].item_id = items[1].id
  /\ ui.kind = "ok"
  /\ items[1].quantity = transactions[1].quantity + transactions[3].quantity
  /\ items[2].quantity = transactions[2].quantity

\* the sum of the quantities of the rows k.. of the log of one direction that
\* carry the given name and unit and lie in the given set of rows
RECURSIVE SumIn(_, _, _, _, _)
SumIn(k, rows, trx_type, name, unit) ==
  IF k > Len(transactions) THEN 0
  ELSE (IF /\ k \in rows /\ transactions[k].trx_type = trx_type
           /\ transactions[k].name = name /\ transactions[k].unit = unit
        THEN transactions[k].quantity ELSE 0)
       + SumIn(k + 1, rows, trx_type, name, unit)

\* C27: for every item and every window, on the frame as loaded and on the
\* frame as a summary has left it, the row totals_for_period returns for the
\* item has as total_masuk the sum of the 'in' rows, and as total_keluar the
\* sum of the 'out' rows, of the log that carry the item's name and unit and
\* were made on a calendar day d with date_from <= d <= date_to; a bound that
\* is not given does not restrict the days.
C27_TotalsSumTheWindow ==
  \A date_from \in Windows, date_to \in Windows :
    \A df \in {FrameNow, summary_by_period(FrameNow, "W").df,
               summary_by_period(FrameNow, "M").df} :
      LET t == totals_for_period(items, df, date_from, date_to)
          rows == RowsInWindow(date_from, date_to)
      IN /\ t.raised = ""
         /\ Len(t.out) = Len(items)
         /\ \A i \in 1..Len(items) :
              /\ t.out[i].name = items[i].name
              /\ t.out[i].unit = items[i].unit
              /\ t.out[i].total_masuk
                   = SumIn(1, rows, "in", items[i].name, items[i].unit)
              /\ t.out[i].total_keluar
                   = SumIn(1, rows, "out", items[i].name, items[i].unit)

\* C27 witness: the report page shows the totals of an item that was
\* received at noon of one day and issued at noon of a later day of the same
\* month, both days being bounds a window can have.
C27_Witness ==
  /\ ui.kind = "report"
  /\ Len(items) = 1
  /\ Len(transactions) = 2
  /\ transactions[1].trx_type = "in"
  /\ transactions[2].trx_type = "out"
  /\ transactions[1].name = items[1].name
  /\ transactions[2].name = items[1].name
  /\ transactions[1].created_at = Stamps[1]
  /\ transactions[2].created_at = Stamps[2]
  /\ dt_date(Stamps[1]) \in ReportDates
  /\ dt_date(Stamps[2]) \in ReportDates
  /\ Stamps[1] % 86400 # 0

\* the calendar week or month a moment falls in
PeriodOf(period, t) == IF period = "W" THEN to_period_W(t) ELSE to_period_M(t)

\* rows j and k of the log belong to one combination: one period, one name,
\* one unit, one direction
SameGroup(period, j, k) ==
  /\ PeriodOf(period, transactions[j].created_at)
       = PeriodOf(period, transactions[k].created_at)
  /\ transactions[j].name = transactions[k].name
  /\ transactions[j].unit = transactions[k].unit
  /\ transactions[j].trx_type = transactions[k].trx_type

\* the sum of the quantities of the rows j.. of the log that belong to the
\* combination of row k
RECURSIVE SumGroup(_, _, _)
SumGroup(period, j, k) ==
  IF j > Len(transactions) THEN 0
  ELSE (IF SameGroup(period, j, k) THEN transactions[j].quantity ELSE 0)
       + SumGroup(period, j + 1, k)

\* the orders the rows of a log of n rows can stand in
Orders(n) == {p \in [1..n -> 1..n] : \A i, j \in 1..n : i # j => p[i] # p[j]}

\* C28: summary_by_period returns, for the weeks and for the months, exactly
\* one row for every combination of period, name, unit and direction that a
\* row of the log has, and no other row: every row of the log is counted in
\* exactly one row of the result, which carries its name, unit, direction and
\* the label of its period and, as quantity, the sum of the quantities of the
\* rows of the log of that combination; and the same rows are returned for
\* the log in any other order.
C28_SummaryOneRowPerGroup ==
  \A period \in {"W", "M"} :
    LET s == summary_by_period(FrameNow, period)
        col == IF period = "W" THEN "week" ELSE "month"
        n == Len(transactions)
        covers(k) == {r \in s.out : /\ r.bucket = Bucket(s.df[k], col)
                                    /\ r.name = transactions[k].name
                                    /\ r.unit = transactions[k].unit
                                    /\ r.trx_type = transactions[k].trx_type}
        groups == {{j \in 1..n : SameGroup(period, j, k)} : k \in 1..n}
    IN /\ s.raised = ""
       /\ Cardinality(s.out) = Cardinality(groups)
       /\ \A k \in 1..n :
            /\ Cardinality(covers(k)) = 1
            /\ \A r \in covers(k) : r.quantity = SumGroup(period, 1, k)
            /\ \A j \in 1..n : covers(j) = covers(k) <=> SameGroup(period, j, k)
       /\ \A r \in s.out : \E k \in 1..n : r \in covers(k)
       /\ \A p \in Orders(n) :
            summary_by_period(
              load_transactions_df([k \in 1..n |-> transactions[p[k]]]),
              period).out = s.out

\* C28 witness: the report page was drawn from a log of two receipts of one
\* (name, unit) made on one day, which fall in one combination for the weeks
\* and for the months, and whose quantities one row of the summary adds up.
C28_Witness ==
  /\ ui.kind = "report"
  /\ Len(transactions) = 2
  /\ transactions[1].name = transactions[2].name
  /\ transactions[1].unit = transactions[2].unit
  /\ transactions[1].trx_type = "in"
  /\ transactions[2].trx_type = "in"
  /\ dt_date(transactions[1].created_at) = dt_date(transactions[2].created_at)

\* the rows the workbooks hold
SheetRows ==
  UNION {{book.inventory[k] : k \in 1..Len(book.inventory)} : book \in Books}

\* C29 as stated: the upload of a workbook of one row leaves the items table
\* and the log as the single-item receipt of the row's name, unit and
\* quantity leaves them.
C29_ImportAsReceipt ==
  \A row \in SheetRows :
    LET up == upload_inventory(items, transactions,
                               [inventory |-> <<row>>,
                                transactions |-> << >>])
        rc == receive_single(items, transactions, row.name, row.unit,
                             row.quantity, clock, RandLo)
    IN /\ up.items = rc.items
       /\ up.transactions = rc.transactions

\* the rows of the form that name no item of the table or ask for more than
\* the item holds
ShortRows(lines) == {k \in 1..Len(lines) : LineFails(items, lines[k])}

\* the rows that the messages of a rejection are about, with the check that
\* they come in the order of the form
RowsNamed(msgs) == {msgs[m].row : m \in 1..Len(msgs)}

InFormOrder(msgs) ==
  \A m \in 1..Len(msgs), n \in 1..Len(msgs) :
    m < n => msgs[m].row < msgs[n].row

C31_NoDuplicateItems ==
  \A i \in 1..Len(items), j \in 1..Len(items) :
    (items[i].name = items[j].name /\ items[i].unit = items[j].unit) => i = j
====
